---- MODULE Spec2Model ----
(***************************************************************************)
(* Model of package ephemeris (calendar.go): the pairwise overlap test     *)
(* isOverlap, the pairwise resolver reduceEvents and the rescanning driver *)
(* ReduceAllEvents.                                                        *)
(*                                                                         *)
(* Instants (time.Time) are integers; Before/After/Equal are <, >, =.      *)
(* An Event is a record [Start, End, Name].  A Go slice is a sequence;     *)
(* Go indexes from 0, sequences from 1, so the Go element s[k] is s[k+1]   *)
(* here while the index variables i and j keep their Go values.            *)
(*                                                                         *)
(* Specifications:                                                         *)
(*   Spec      one call of ReduceAllEvents on a drawn input list, one      *)
(*             action per loop iteration, followed (when it returns) by a  *)
(*             second call on its own result;                              *)
(*   FairSpec  Spec with the call's steps weakly fair (for termination);   *)
(*   PairSpec  one call of isOverlap or reduceEvents on a drawn pair.      *)
(***************************************************************************)
EXTENDS Integers, Sequences, FiniteSets

\* Bounds of the model.
MaxTime == 5
MaxLen == 3
MaxRepeat == 2

\* The names carried by the drawn occurrences (calendar_test.go uses one, two).
Names == {"one", "two", "three"}

\* The name of the k-th entry of a drawn input list: Name is a payload the
\* code copies and never reads, so a drawn list names its entries by position.
NameOf(k) ==
  IF k = 1 THEN "one" ELSE IF k = 2 THEN "two" ELSE IF k = 3 THEN "three"
  ELSE IF k = 4 THEN "four" ELSE "more"

\* The instants inputs are drawn from.
Times == 0..MaxTime

\* The zero time.Time (January 1, year 1): before every drawn instant and
\* before every instant an expansion steps back to.
ZeroTime == 0 - (MaxTime + MaxRepeat + 1)

\* Event{}: the zero value slices.Replace leaves in vacated cells.
ZeroEvent == [Start |-> ZeroTime, End |-> ZeroTime, Name |-> ""]

\* The valid occurrences: Start <= End, zero length allowed.
Event == {ev \in [Start : Times, End : Times, Name : Names] : ev.Start <= ev.End}

\* The valid ranges: Start <= End.
Ranges == {r \in Times \X Times : r[1] <= r[2]}

\* Every list of at most n valid occurrences, named by position.
EventLists(n) ==
  UNION {{[k \in 1..m |-> [Start |-> f[k][1], End |-> f[k][2], Name |-> NameOf(k)]] :
            f \in [1..m -> Ranges]} : m \in 0..n}

VARIABLES
  input,            \* the list the caller built (kept for comparison, never written)
  events,           \* the caller's slice as the caller can read it after the call
  processedEvents,  \* ReduceAllEvents' working slice
  aliased,          \* processedEvents still shares the caller's backing array
  i, j,             \* ReduceAllEvents' loop indexes (Go values, from 0)
  pc,               \* "call", "loop", "done" (returned) or "panic"
  result,           \* the list ReduceAllEvents returned
  err,              \* the error ReduceAllEvents returned ("nil" or a message)
  pass,             \* 1: the call on input, 2: the call on the first result
  firstResult,      \* what the first call returned
  scan,             \* what the loop's last iteration did, and on which positions
  e1, e2,           \* the arguments of the pairwise call
  op,               \* "none", "isOverlap" or "reduceEvents": the pairwise call made
  overlap,          \* what isOverlap returned
  ret               \* what reduceEvents did: [panicked, first, second]

VARIABLES
  rule,                 \* Expand's receiver r
  viewStart, viewEnd,   \* the query window handed to Expand and View
  evaluatingStartTime,  \* Expand's loop variable
  evaluatingEndTime,    \* Expand's running end
  expandedEvents,       \* the list Expand builds and returns
  xpc                   \* "idle", "call", "backward", "forward" or "done" (returned)

expandVars == <<rule, viewStart, viewEnd, evaluatingStartTime, evaluatingEndTime,
                expandedEvents, xpc>>

VARIABLES
  entries,     \* the calendar's rules, c.Entries
  ruleIdx,     \* how many rules View's range loop has expanded
  results,     \* the list View collects
  vpc,         \* "idle", "call", "range", "expand", "reduce", "done" or "panic"
  viewResult,  \* the list View returned (empty for nil)
  viewErr      \* the error View returned ("nil" or a message)

viewVars == <<entries, ruleIdx, results, vpc, viewResult, viewErr>>

vars == <<input, events, processedEvents, aliased, i, j, pc, result, err, pass,
          firstResult, scan, e1, e2, op, overlap, ret, expandVars, viewVars>>

listVars == <<input, events, processedEvents, aliased, i, j, pc, result, err,
              pass, firstResult, scan>>

pairVars == <<e1, e2, op, overlap, ret>>

--------------------------------------------------------------------------
(* isOverlap, calendar.go lines 290-307 *)

isOverlap(x, y) ==
  IF \/ (x.Start < y.Start /\ x.End < y.Start)
     \/ (y.Start < x.Start /\ y.End < x.Start)
  THEN FALSE
  ELSE IF x.Start < y.Start /\ y.Start = x.End /\ y.End > x.End
  THEN FALSE
  ELSE TRUE

--------------------------------------------------------------------------
(* reduceEvents, calendar.go lines 207-287.  The result records whether the *)
(* final panic was reached and, if not, the two returned slices.            *)

Returned(f, s) == [panicked |-> FALSE, first |-> f, second |-> s]

Panicked == [panicked |-> TRUE, first |-> <<>>, second |-> <<>>]

\* reduceEvents with the last case clipping the wrong occurrence: e2 is cut
\* to end where e1 starts and e1 is kept whole.
reduceEventsClipsSecond(x, y) ==
  IF ~isOverlap(x, y)
  THEN Returned(<<x>>, <<y>>)
  ELSE IF x.Start = y.Start /\ x.End = y.End
  THEN Returned(<<>>, <<y>>)
  ELSE IF x.Start = y.Start /\ x.End > y.End
  THEN Returned(<<[x EXCEPT !.Start = y.End]>>, <<y>>)
  ELSE IF x.Start = y.Start /\ x.End < y.End
  THEN Returned(<<>>, <<y>>)
  ELSE IF x.Start < y.Start /\ x.End > y.End
  THEN Returned(<<[x EXCEPT !.End = y.Start], [x EXCEPT !.Start = y.End]>>, <<y>>)
  ELSE IF y.Start < x.Start /\ y.End > x.End
  THEN Returned(<<>>, <<y>>)
  ELSE IF x.Start < y.Start /\ y.Start < x.End /\ y.End > x.End
  THEN Returned(<<[x EXCEPT !.End = y.Start]>>, <<y>>)
  ELSE IF y.Start < x.Start /\ x.Start < y.End /\ x.End > y.End
  THEN Returned(<<x>>, <<[y EXCEPT !.End = x.Start]>>)
  ELSE Panicked

\* reduceEvents with the nested case keeping e1 whole beside its two
\* fragments.
reduceEventsKeepsWhole(x, y) ==
  IF ~isOverlap(x, y)
  THEN Returned(<<x>>, <<y>>)
  ELSE IF x.Start = y.Start /\ x.End = y.End
  THEN Returned(<<>>, <<y>>)
  ELSE IF x.Start = y.Start /\ x.End > y.End
  THEN Returned(<<[x EXCEPT !.Start = y.End]>>, <<y>>)
  ELSE IF x.Start = y.Start /\ x.End < y.End
  THEN Returned(<<>>, <<y>>)
  ELSE IF x.Start < y.Start /\ x.End > y.End
  THEN Returned(<<x, [x EXCEPT !.End = y.Start], [x EXCEPT !.Start = y.End]>>, <<y>>)
  ELSE IF y.Start < x.Start /\ y.End > x.End
  THEN Returned(<<>>, <<y>>)
  ELSE IF x.Start < y.Start /\ y.Start < x.End /\ y.End > x.End
  THEN Returned(<<[x EXCEPT !.End = y.Start]>>, <<y>>)
  ELSE IF y.Start < x.Start /\ x.Start < y.End /\ x.End > y.End
  THEN Returned(<<[x EXCEPT !.Start = y.End]>>, <<y>>)
  ELSE Panicked

\* reduceEvents with the same-start case forgetting to move e1's Start: e1
\* is returned whole although e2 covers its beginning.
reduceEventsKeepsOverlap(x, y) ==
  IF ~isOverlap(x, y)
  THEN Returned(<<x>>, <<y>>)
  ELSE IF x.Start = y.Start /\ x.End = y.End
  THEN Returned(<<>>, <<y>>)
  ELSE IF x.Start = y.Start /\ x.End > y.End
  THEN Returned(<<x>>, <<y>>)
  ELSE IF x.Start = y.Start /\ x.End < y.End
  THEN Returned(<<>>, <<y>>)
  ELSE IF x.Start < y.Start /\ x.End > y.End
  THEN Returned(<<[x EXCEPT !.End = y.Start], [x EXCEPT !.Start = y.End]>>, <<y>>)
  ELSE IF y.Start < x.Start /\ y.End > x.End
  THEN Returned(<<>>, <<y>>)
  ELSE IF x.Start < y.Start /\ y.Start < x.End /\ y.End > x.End
  THEN Returned(<<[x EXCEPT !.End = y.Start]>>, <<y>>)
  ELSE IF y.Start < x.Start /\ x.Start < y.End /\ x.End > y.End
  THEN Returned(<<[x EXCEPT !.Start = y.End]>>, <<y>>)
  ELSE Panicked

reduceEvents(x, y) ==
  IF ~isOverlap(x, y)
  THEN Returned(<<x>>, <<y>>)
  ELSE IF x.Start = y.Start /\ x.End = y.End
  THEN Returned(<<>>, <<y>>)
  ELSE IF x.Start = y.Start /\ x.End > y.End
  THEN Returned(<<[x EXCEPT !.Start = y.End]>>, <<y>>)
  ELSE IF x.Start = y.Start /\ x.End < y.End
  THEN Returned(<<>>, <<y>>)
  ELSE IF x.Start < y.Start /\ x.End > y.End
  THEN Returned(<<[x EXCEPT !.End = y.Start], [x EXCEPT !.Start = y.End]>>, <<y>>)
  ELSE IF y.Start < x.Start /\ y.End > x.End
  THEN Returned(<<>>, <<y>>)
  ELSE IF x.Start < y.Start /\ y.Start < x.End /\ y.End > x.End
  THEN Returned(<<[x EXCEPT !.End = y.Start]>>, <<y>>)
  ELSE IF y.Start < x.Start /\ x.Start < y.End /\ x.End > y.End
  THEN Returned(<<[x EXCEPT !.Start = y.End]>>, <<y>>)
  ELSE Panicked

--------------------------------------------------------------------------
(* slices.Replace(s, lo, hi, v...) as ReduceAllEvents uses it (lines 186,   *)
(* 187): it panics unless 0 <= lo <= hi <= len(s), and otherwise returns    *)
(* s[:lo] ++ v ++ s[hi:].  The result is written into s's backing array     *)
(* when it fits its capacity (the vacated cells up to the old length are    *)
(* zeroed, as the standard library does since Go 1.22); otherwise a new     *)
(* array is allocated.  The caller's slice is taken to have cap == len, as  *)
(* the slice literals of calendar_test.go have.                             *)

ReplaceOK(s, lo, hi) == 0 <= lo /\ lo <= hi /\ hi <= Len(s)

Replace(s, lo, hi, v) == SubSeq(s, 1, lo) \o v \o SubSeq(s, hi + 1, Len(s))

\* The caller's cells after an in-place Replace that turned a working slice
\* of length oldLen into the list new: the caller reads Len(mem) cells.
WriteThrough(mem, new, oldLen) ==
  [k \in 1..Len(mem) |->
     IF k <= Len(new) THEN new[k]
     ELSE IF k <= oldLen THEN ZeroEvent
     ELSE mem[k]]

\* One slices.Replace on the working slice: the new working slice, the
\* caller's cells and whether the backing array is still the caller's.
\* The caller's slice has capacity Len(mem).
ReplaceStep(s, mem, shared, lo, hi, v) ==
  LET new == Replace(s, lo, hi, v)
      inPlace == shared /\ Len(new) <= Len(mem)
  IN  [list |-> new,
       mem |-> IF inPlace THEN WriteThrough(mem, new, Len(s)) ELSE mem,
       shared |-> inPlace]

--------------------------------------------------------------------------
(* ReduceAllEvents, calendar.go lines 155-195 *)

\* What one iteration of the loop did: kind is "exit" (line 165 false),
\* "break" (line 175), "index" (line 178 indexed past the end), "skip" (no
\* overlap), "reduce-panic" (line 286), "replace-panic" (line 187) or
\* "resolve" (lines 183-191); at and bt are the positions used at line 178,
\* n the length of the working slice then, first the fragments that
\* reduceEvents returned for the element at position at.
Scanned(kind, at, bt, n, first) ==
  [kind |-> kind, i |-> at, j |-> bt, n |-> n, first |-> first]

\* No iteration yet.
NoScan == Scanned("none", 0, 0, 0, <<>>)

\* The zero Rule: its embedded Event, RepeatDuration and limits are zero.
ZeroRule ==
  [Start |-> ZeroTime, End |-> ZeroTime, Name |-> "", RepeatDuration |-> 0,
   RepeatForwardUntil |-> ZeroTime, RepeatBackwardUntil |-> ZeroTime]

\* No Expand call is under way.
ExpandIdle ==
  /\ rule = ZeroRule
  /\ viewStart = ZeroTime
  /\ viewEnd = ZeroTime
  /\ evaluatingStartTime = ZeroTime
  /\ evaluatingEndTime = ZeroTime
  /\ expandedEvents = <<>>
  /\ xpc = "idle"

\* No View call is under way.
ViewIdle ==
  /\ entries = <<>>
  /\ ruleIdx = 0
  /\ results = <<>>
  /\ vpc = "idle"
  /\ viewResult = <<>>
  /\ viewErr = "nil"

\* No ReduceAllEvents call is under way.
ListIdle ==
  /\ input = <<>>
  /\ events = <<>>
  /\ processedEvents = <<>>
  /\ aliased = FALSE
  /\ i = 0
  /\ j = 0
  /\ pc = "idle"
  /\ result = <<>>
  /\ err = "nil"
  /\ pass = 1
  /\ firstResult = <<>>
  /\ scan = NoScan

\* No pairwise call is made.
PairIdle ==
  /\ e1 = ZeroEvent
  /\ e2 = ZeroEvent
  /\ op = "idle"
  /\ overlap = FALSE
  /\ ret = Panicked

TypeOK ==
  /\ pc \in {"idle", "call", "loop", "done", "panic"}
  /\ op \in {"idle", "none", "isOverlap", "reduceEvents"}
  /\ i \in Nat /\ j \in Nat
  /\ pass \in {1, 2}
  /\ aliased \in BOOLEAN
  /\ overlap \in BOOLEAN

\* Lines 156-164: the short-list return, or the loop's set-up.
ReduceAllEventsEnter ==
  /\ pc = "call"
  /\ IF Len(events) < 2
     THEN /\ pc' = "done"
          /\ result' = events
          /\ err' = "nil"
          /\ UNCHANGED <<processedEvents, aliased, i, j>>
     ELSE /\ pc' = "loop"
          /\ processedEvents' = events
          /\ aliased' = TRUE
          /\ i' = 0
          /\ j' = 1
          /\ UNCHANGED <<result, err>>
  /\ firstResult' = IF pass = 1 /\ Len(events) < 2 THEN events ELSE firstResult
  /\ scan' = NoScan
  /\ UNCHANGED <<input, events, pass>>
  /\ UNCHANGED pairVars
  /\ UNCHANGED expandVars
  /\ UNCHANGED viewVars

\* Lines 165-194: the loop test and one iteration of the body, or the return
\* after the loop.
ReduceAllEventsLoop ==
  /\ pc = "loop"
  /\ IF j = Len(processedEvents)
     THEN \* line 165 is false: line 194
          /\ pc' = "done"
          /\ result' = processedEvents
          /\ err' = "nil"
          /\ firstResult' = IF pass = 1 THEN processedEvents ELSE firstResult
          /\ scan' = Scanned("exit", i, j, Len(processedEvents), <<>>)
          /\ UNCHANGED <<processedEvents, events, aliased, i, j>>
     ELSE LET n == Len(processedEvents)
              \* lines 169-172
              j1 == IF i = n THEN j + 1 ELSE j
              i1 == IF i = n THEN 0 ELSE i
          IN  IF i1 = n - 2 /\ j1 = n
              THEN \* lines 173-176: break, then line 194
                   /\ pc' = "done"
                   /\ result' = processedEvents
                   /\ err' = "nil"
                   /\ firstResult' = IF pass = 1 THEN processedEvents ELSE firstResult
                   /\ i' = i1
                   /\ j' = j1
                   /\ scan' = Scanned("break", i1, j1, n, <<>>)
                   /\ UNCHANGED <<processedEvents, events, aliased>>
              ELSE IF i1 >= n \/ j1 >= n
              THEN \* line 178: index out of range
                   /\ pc' = "panic"
                   /\ i' = i1
                   /\ j' = j1
                   /\ scan' = Scanned("index", i1, j1, n, <<>>)
                   /\ UNCHANGED <<processedEvents, events, aliased, result, err, firstResult>>
              ELSE IF ~isOverlap(processedEvents[i1 + 1], processedEvents[j1 + 1])
              THEN \* lines 178-181
                   /\ i' = i1 + 1
                   /\ j' = j1
                   /\ scan' = Scanned("skip", i1, j1, n, <<>>)
                   /\ UNCHANGED <<pc, processedEvents, events, aliased, result, err, firstResult>>
              ELSE LET r == reduceEvents(processedEvents[i1 + 1], processedEvents[j1 + 1])
                       \* line 186
                       s1 == ReplaceStep(processedEvents, events, aliased, i1, i1 + 1, r.first)
                       lo == j1 + Len(r.first)
                       \* line 187
                       s2 == ReplaceStep(s1.list, s1.mem, s1.shared, lo, lo + 1, r.second)
                   IN  IF r.panicked
                       THEN \* line 286
                            /\ pc' = "panic"
                            /\ i' = i1
                            /\ j' = j1
                            /\ scan' = Scanned("reduce-panic", i1, j1, n, <<>>)
                            /\ UNCHANGED <<processedEvents, events, aliased, result, err, firstResult>>
                       ELSE IF ~ReplaceOK(s1.list, lo, lo + 1)
                       THEN \* line 187 panics; line 186 has taken effect
                            /\ pc' = "panic"
                            /\ processedEvents' = s1.list
                            /\ events' = s1.mem
                            /\ aliased' = s1.shared
                            /\ i' = i1
                            /\ j' = j1
                            /\ scan' = Scanned("replace-panic", i1, j1, n, r.first)
                            /\ UNCHANGED <<result, err, firstResult>>
                       ELSE \* lines 186-191
                            /\ processedEvents' = s2.list
                            /\ events' = s2.mem
                            /\ aliased' = s2.shared
                            /\ i' = 0
                            /\ j' = 1
                            /\ scan' = Scanned("resolve", i1, j1, n, r.first)
                            /\ UNCHANGED <<pc, result, err, firstResult>>
  /\ UNCHANGED <<input, pass>>
  /\ UNCHANGED pairVars
  /\ UNCHANGED expandVars
  /\ UNCHANGED viewVars

\* The caller hands the list the first call returned to a second call.
ReduceAllEventsAgain ==
  /\ pc = "done"
  /\ pass = 1
  /\ pass' = 2
  /\ events' = result
  /\ pc' = "call"
  /\ UNCHANGED <<input, processedEvents, aliased, i, j, result, err, firstResult, scan>>
  /\ UNCHANGED pairVars
  /\ UNCHANGED expandVars
  /\ UNCHANGED viewVars

Init ==
  /\ input \in EventLists(MaxLen)
  /\ events = input
  /\ processedEvents = <<>>
  /\ aliased = FALSE
  /\ i = 0
  /\ j = 0
  /\ pc = "call"
  /\ result = <<>>
  /\ err = "nil"
  /\ pass = 1
  /\ firstResult = <<>>
  /\ scan = NoScan
  /\ e1 = ZeroEvent
  /\ e2 = ZeroEvent
  /\ op = "idle"
  /\ overlap = FALSE
  /\ ret = Panicked
  /\ ExpandIdle
  /\ ViewIdle

Next ==
  \/ ReduceAllEventsEnter
  \/ ReduceAllEventsLoop
  \/ ReduceAllEventsAgain

Spec == Init /\ [][Next]_vars

\* The call runs on one goroutine that is never suspended for good: whenever
\* a step can change the state, one is eventually taken.
FairSpec == Init /\ [][Next]_vars /\ WF_vars(Next)

--------------------------------------------------------------------------
(* The pairwise functions applied to a drawn pair *)

CallIsOverlap ==
  /\ op = "none"
  /\ op' = "isOverlap"
  /\ overlap' = isOverlap(e1, e2)
  /\ UNCHANGED <<e1, e2, ret>>
  /\ UNCHANGED listVars
  /\ UNCHANGED expandVars
  /\ UNCHANGED viewVars

CallReduceEvents ==
  /\ op = "none"
  /\ op' = "reduceEvents"
  /\ ret' = reduceEvents(e1, e2)
  /\ UNCHANGED <<e1, e2, overlap>>
  /\ UNCHANGED listVars
  /\ UNCHANGED expandVars
  /\ UNCHANGED viewVars

PairInit ==
  /\ e1 \in Event
  /\ e2 \in Event
  /\ op = "none"
  /\ overlap = FALSE
  /\ ret = Panicked
  /\ input = <<>>
  /\ events = <<>>
  /\ processedEvents = <<>>
  /\ aliased = FALSE
  /\ i = 0
  /\ j = 0
  /\ pc = "idle"
  /\ result = <<>>
  /\ err = "nil"
  /\ pass = 1
  /\ firstResult = <<>>
  /\ scan = NoScan
  /\ ExpandIdle
  /\ ViewIdle

PairNext ==
  \/ CallIsOverlap
  \/ CallReduceEvents

PairSpec == PairInit /\ [][PairNext]_vars

--------------------------------------------------------------------------
(* Rule.Expand, calendar.go lines 96-121 *)

\* The repeat intervals a drawn rule carries: zero (no repetition) included.
Repeats == 0..MaxRepeat

\* An optional limit: the zero time (not set) or an instant.
Limits == {ZeroTime} \cup Times

\* The rules with a valid base occurrence.  Skip and Canceled are left out:
\* no code reads them.
Rules ==
  {[Start |-> r[1], End |-> r[2], Name |-> nm, RepeatDuration |-> d,
    RepeatForwardUntil |-> f, RepeatBackwardUntil |-> b] :
     r \in Ranges, nm \in Names, d \in Repeats, f \in Limits, b \in Limits}

\* The longest list an expansion with a positive RepeatDuration builds: at
\* most MaxTime steps back and MaxTime steps forward.  A loop that has
\* appended one more than that is not followed further.
MaxExpand == 2 * MaxTime + 1

\* Lines 97-100: the empty list and the set-up of the backward loop.
ExpandEnter ==
  /\ xpc = "call"
  /\ expandedEvents' = <<>>
  /\ evaluatingEndTime' = rule.End
  /\ evaluatingStartTime' = rule.Start
  /\ xpc' = "backward"
  /\ UNCHANGED <<rule, viewStart, viewEnd>>
  /\ UNCHANGED listVars
  /\ UNCHANGED pairVars
  /\ UNCHANGED viewVars

\* Lines 100-107: one iteration of the backward loop, or (lines 110-111) the
\* set-up of the forward loop once the loop test is false.
ExpandBackward ==
  /\ xpc = "backward"
  /\ IF evaluatingStartTime > viewStart
     THEN /\ Len(expandedEvents) < MaxExpand
          /\ evaluatingEndTime' = evaluatingEndTime - rule.RepeatDuration
          /\ expandedEvents' =
               Append(expandedEvents,
                      [Start |-> evaluatingStartTime,
                       End |-> evaluatingEndTime - rule.RepeatDuration,
                       Name |-> rule.Name])
          /\ evaluatingStartTime' = evaluatingStartTime - rule.RepeatDuration
          /\ UNCHANGED xpc
     ELSE /\ evaluatingEndTime' = rule.End
          /\ evaluatingStartTime' = rule.Start
          /\ xpc' = "forward"
          /\ UNCHANGED expandedEvents
  /\ UNCHANGED <<rule, viewStart, viewEnd>>
  /\ UNCHANGED listVars
  /\ UNCHANGED pairVars
  /\ UNCHANGED viewVars

\* Lines 111-118: one iteration of the forward loop, or (line 120) the return
\* once the loop test is false.
ExpandForward ==
  /\ xpc = "forward"
  /\ IF evaluatingStartTime < viewEnd
     THEN /\ Len(expandedEvents) < MaxExpand
          /\ evaluatingEndTime' = evaluatingEndTime + rule.RepeatDuration
          /\ expandedEvents' =
               Append(expandedEvents,
                      [Start |-> evaluatingStartTime,
                       End |-> evaluatingEndTime + rule.RepeatDuration,
                       Name |-> rule.Name])
          /\ evaluatingStartTime' = evaluatingStartTime + rule.RepeatDuration
          /\ UNCHANGED xpc
     ELSE /\ xpc' = "done"
          /\ UNCHANGED <<evaluatingStartTime, evaluatingEndTime, expandedEvents>>
  /\ UNCHANGED <<rule, viewStart, viewEnd>>
  /\ UNCHANGED listVars
  /\ UNCHANGED pairVars
  /\ UNCHANGED viewVars

\* A drawn rule expanded over a drawn window [viewStart, viewEnd).
ExpandInit ==
  /\ rule \in Rules
  /\ viewStart \in Times
  /\ viewEnd \in Times
  /\ viewStart <= viewEnd
  /\ evaluatingStartTime = ZeroTime
  /\ evaluatingEndTime = ZeroTime
  /\ expandedEvents = <<>>
  /\ xpc = "call"
  /\ ListIdle
  /\ PairIdle
  /\ ViewIdle

ExpandNext ==
  \/ ExpandEnter
  \/ ExpandBackward
  \/ ExpandForward

ExpandSpec == ExpandInit /\ [][ExpandNext]_vars

--------------------------------------------------------------------------
(* Calendar.View, calendar.go lines 126-152 *)

\* Bounds of the calendars View is run on.
MaxViewTime == 2
MaxRules == 2

\* The instants a calendar's rules and View's window are drawn from.
ViewTimes == 0..MaxViewTime

\* Every calendar of at most n rules, named by position, limits not set.  A
\* base need not be valid here: Start > End is drawn too.
Calendars(n) ==
  UNION {{[k \in 1..m |->
             [Start |-> f[k][1], End |-> f[k][2], Name |-> NameOf(k),
              RepeatDuration |-> f[k][3],
              RepeatForwardUntil |-> ZeroTime, RepeatBackwardUntil |-> ZeroTime]] :
            f \in [1..m -> ViewTimes \X ViewTimes \X Repeats]} : m \in 0..n}

\* Line 135: var results []Event.
ViewEnter ==
  /\ vpc = "call"
  /\ results' = <<>>
  /\ ruleIdx' = 0
  /\ vpc' = "range"
  /\ UNCHANGED <<entries, viewResult, viewErr>>
  /\ UNCHANGED listVars
  /\ UNCHANGED pairVars
  /\ UNCHANGED expandVars

\* Lines 136-137: the range loop hands the next rule to Expand; or, after the
\* last rule, line 149 hands the collected list to ReduceAllEvents.
ViewRange ==
  /\ vpc = "range"
  /\ IF ruleIdx < Len(entries)
     THEN /\ rule' = entries[ruleIdx + 1]
          /\ xpc' = "call"
          /\ vpc' = "expand"
          /\ UNCHANGED <<viewStart, viewEnd, evaluatingStartTime, evaluatingEndTime,
                         expandedEvents>>
          /\ UNCHANGED listVars
     ELSE /\ input' = results
          /\ events' = results
          /\ pc' = "call"
          /\ vpc' = "reduce"
          /\ UNCHANGED <<processedEvents, aliased, i, j, result, err, pass,
                         firstResult, scan>>
          /\ UNCHANGED expandVars
  /\ UNCHANGED <<entries, ruleIdx, results, viewResult, viewErr>>
  /\ UNCHANGED pairVars

\* Lines 138-145: the inner loop changes nothing (its body is a continue),
\* then everything Expand returned is appended.
ViewAppend ==
  /\ vpc = "expand"
  /\ xpc = "done"
  /\ results' = results \o expandedEvents
  /\ ruleIdx' = ruleIdx + 1
  /\ vpc' = "range"
  /\ UNCHANGED <<entries, viewResult, viewErr>>
  /\ UNCHANGED listVars
  /\ UNCHANGED pairVars
  /\ UNCHANGED expandVars

\* Lines 149-152: what ReduceAllEvents returned is handed on; a panic inside
\* it unwinds through View.
ViewReturn ==
  /\ vpc = "reduce"
  /\ pc \in {"done", "panic"}
  /\ IF pc = "panic"
     THEN /\ vpc' = "panic"
          /\ UNCHANGED <<viewResult, viewErr>>
     ELSE /\ vpc' = "done"
          /\ viewResult' = IF err # "nil" THEN <<>> ELSE result
          /\ viewErr' = err
  /\ UNCHANGED <<entries, ruleIdx, results>>
  /\ UNCHANGED listVars
  /\ UNCHANGED pairVars
  /\ UNCHANGED expandVars

\* View called on a drawn calendar with a drawn window, valid or not.
ViewInit ==
  /\ entries \in Calendars(MaxRules)
  /\ viewStart \in ViewTimes
  /\ viewEnd \in ViewTimes
  /\ ruleIdx = 0
  /\ results = <<>>
  /\ vpc = "call"
  /\ viewResult = <<>>
  /\ viewErr = "nil"
  /\ rule = ZeroRule
  /\ evaluatingStartTime = ZeroTime
  /\ evaluatingEndTime = ZeroTime
  /\ expandedEvents = <<>>
  /\ xpc = "idle"
  /\ ListIdle
  /\ PairIdle

ViewNext ==
  \/ ViewEnter
  \/ ViewRange
  \/ ExpandEnter
  \/ ExpandBackward
  \/ ExpandForward
  \/ ViewAppend
  \/ ReduceAllEventsEnter
  \/ ReduceAllEventsLoop
  \/ ViewReturn

ViewSpec == ViewInit /\ [][ViewNext]_vars

--------------------------------------------------------------------------
(* Properties *)

\* The instant t (the cell from t to t+1) lies in ev's range [Start, End).
Covers(ev, t) == ev.Start <= t /\ t < ev.End

\* The cells an occurrence of this model can cover (fragments stay inside).
Cells == 0..(MaxTime - 1)

\* The first call of ReduceAllEvents has ended, by returning or by a panic.
FirstCallEnded == pass = 1 /\ pc \in {"done", "panic"}

\* The positions of the input entries covering t.
Covering(t) == {k \in 1..Len(input) : Covers(input[k], t)}

\* The greatest element of a non-empty set of positions.
Latest(S) == CHOOSE k \in S : \A m \in S : m <= k

\* The two ranges have no instant in common.
Disjoint(x, y) == \A t \in Cells : ~(Covers(x, t) /\ Covers(y, t))

\* C1: every call of ReduceAllEvents on a list of valid occurrences returns,
\* and no two distinct elements of the returned list overlap by isOverlap,
\* in either argument order.
C1_NoOverlapInOutput ==
  FirstCallEnded =>
    /\ pc = "done"
    /\ \A a, b \in 1..Len(result) : a # b => ~isOverlap(result[a], result[b])

\* C2: the call returns, and every instant covered by two or more input
\* occurrences is covered in the output by elements carrying the Name of the
\* latest covering input.
C2_LaterEntriesWin ==
  FirstCallEnded =>
    /\ pc = "done"
    /\ \A t \in Cells :
         Cardinality(Covering(t)) >= 2 =>
           /\ \E m \in 1..Len(result) : Covers(result[m], t)
           /\ \A m \in 1..Len(result) :
                Covers(result[m], t) => result[m].Name = input[Latest(Covering(t))].Name

\* The nested scenario: one:[D0,D5), two:[D1,D2), three:[D2,D4).
NestedScenario ==
  << [Start |-> 0, End |-> 5, Name |-> "one"],
     [Start |-> 1, End |-> 2, Name |-> "two"],
     [Start |-> 2, End |-> 4, Name |-> "three"] >>

\* C3: the call returns, the output covers exactly the instants the input
\* covers, and the nested scenario keeps [D4,D5) as a fragment named one.
C3_CoveragePreserved ==
  FirstCallEnded =>
    /\ pc = "done"
    /\ \A t \in Cells :
         (\E k \in 1..Len(input) : Covers(input[k], t))
           <=> (\E m \in 1..Len(result) : Covers(result[m], t))
    /\ input = NestedScenario =>
         \E m \in 1..Len(result) : result[m] = [Start |-> 4, End |-> 5, Name |-> "one"]

\* C4: reduceEvents returns for every pair of valid occurrences: it never
\* reaches its final panic.
C4_ReduceEventsExhaustive == op = "reduceEvents" => ~ret.panicked

\* The two occurrences touch end-to-start and share no instant.
Touching(x, y) == (x.End = y.Start \/ y.End = x.Start) /\ Disjoint(x, y)

\* C5: isOverlap is false for two occurrences that merely touch end-to-start,
\* whichever of the two is passed first.
C5_TouchingIsNotOverlap == op = "isOverlap" /\ Touching(e1, e2) => overlap = FALSE

\* C6: whenever reduceEvents returns, its second result is the one-element
\* list holding e2 unchanged.
C6_SecondResultIsE2 == op = "reduceEvents" /\ ~ret.panicked => ret.second = <<e2>>

\* C6 witness: reduceEvents returned for an overlapping pair it had to clip.
C6_Witness ==
  /\ op = "reduceEvents"
  /\ ~ret.panicked
  /\ isOverlap(e1, e2)
  /\ ret.first # <<e1>>
  /\ ret.second = <<e2>>

\* C7: ReduceAllEvents returns, and applied to its own result it returns the
\* same list again.
C7_Idempotent ==
  /\ pc # "panic"
  /\ pass = 2 /\ pc = "done" => result = firstResult

\* No two entries of the input share an instant (touching entries do not).
InputDisjoint ==
  \A a, b \in 1..Len(input) : a # b => Disjoint(input[a], input[b])

\* C8: an input with no two overlapping occurrences is returned unchanged.
C8_DisjointInputUnchanged ==
  FirstCallEnded /\ InputDisjoint => pc = "done" /\ result = input

\* C9: every call of ReduceAllEvents ends by returning a list.
C9_Terminates == <>(pc = "done")

\* C10: whenever reduceEvents returns, the two results together hold at
\* least one and at most three occurrences.
C10_FragmentBound ==
  op = "reduceEvents" /\ ~ret.panicked =>
    /\ Len(ret.first) + Len(ret.second) >= 1
    /\ Len(ret.first) + Len(ret.second) <= 3

\* C10 witness: reduceEvents returned three occurrences in all.
C10_Witness ==
  /\ op = "reduceEvents"
  /\ ~ret.panicked
  /\ Len(ret.first) + Len(ret.second) = 3

\* The base occurrence of the rule being expanded.
Base == [Start |-> rule.Start, End |-> rule.End, Name |-> rule.Name]

\* ev is the base shifted by k times RepeatDuration, Name copied.
ShiftedBase(ev, k) ==
  /\ ev.Start = rule.Start + k * rule.RepeatDuration
  /\ ev.End = rule.End + k * rule.RepeatDuration
  /\ ev.Name = rule.Name

\* The multiples an expansion can reach.
Shifts == (0 - MaxExpand)..MaxExpand

\* A valid base expanded over a valid window.
ValidExpand == rule.Start <= rule.End /\ viewStart <= viewEnd

\* C11: every occurrence Expand returns is the base shifted by one integer
\* multiple k of RepeatDuration, the same k for Start and End, with the
\* base's Name; for a base starting at viewStart the i-th returned occurrence
\* (from 0) uses k = i, so the first is the base itself.
C11_OccurrencesAreShiftedBase ==
  xpc = "done" /\ ValidExpand =>
    /\ \A n \in 1..Len(expandedEvents) :
         \E k \in Shifts : ShiftedBase(expandedEvents[n], k)
    /\ rule.Start = viewStart =>
         \A n \in 1..Len(expandedEvents) : ShiftedBase(expandedEvents[n], n - 1)

\* ev intersects the window: it lies neither entirely after viewEnd nor
\* entirely before viewStart.
InWindow(ev) == ~(ev.Start >= viewEnd) /\ ~(ev.End < viewStart)

\* C12: with RepeatDuration zero, Expand never holds more than the base
\* occurrence, once, and holds it only if it intersects the window.
C12_ZeroRepeatEmitsBaseOnce ==
  xpc \in {"backward", "forward", "done"} /\ ValidExpand /\ rule.RepeatDuration = 0 =>
    /\ Len(expandedEvents) <= 1
    /\ \A n \in 1..Len(expandedEvents) :
         expandedEvents[n] = Base /\ InWindow(Base)

\* Every rule of the calendar has a valid base, and the window is valid.
ValidView ==
  /\ viewStart <= viewEnd
  /\ \A k \in 1..Len(entries) : entries[k].Start <= entries[k].End

\* C13: every occurrence Expand returns, and so every occurrence View hands
\* to ReduceAllEvents, intersects the window.
C13_OccurrencesIntersectWindow ==
  /\ xpc = "done" /\ ValidExpand =>
       \A n \in 1..Len(expandedEvents) : InWindow(expandedEvents[n])
  /\ vpc = "reduce" /\ ValidView =>
       \A n \in 1..Len(input) : InWindow(input[n])

\* The base itself starts inside the limits that are set.
BaseWithinLimits ==
  /\ rule.RepeatForwardUntil # ZeroTime => rule.Start <= rule.RepeatForwardUntil
  /\ rule.RepeatBackwardUntil # ZeroTime => rule.Start >= rule.RepeatBackwardUntil

\* C14: Expand returns no occurrence that starts after a set
\* RepeatForwardUntil or before a set RepeatBackwardUntil.
C14_LimitsRespected ==
  xpc = "done" /\ ValidExpand /\ BaseWithinLimits =>
    \A n \in 1..Len(expandedEvents) :
      /\ rule.RepeatForwardUntil # ZeroTime =>
           expandedEvents[n].Start <= rule.RepeatForwardUntil
      /\ rule.RepeatBackwardUntil # ZeroTime =>
           expandedEvents[n].Start >= rule.RepeatBackwardUntil

\* C15: View ends with a non-nil error and no list, and without a panic,
\* when the window or a rule's base has Start > End; so does ReduceAllEvents
\* when an occurrence of its input has Start > End.
C15_InvalidRangeRejected ==
  /\ vpc \in {"done", "panic"} /\ ~ValidView =>
       vpc = "done" /\ viewErr # "nil" /\ viewResult = <<>>
  /\ pc \in {"done", "panic"} /\ (\E n \in 1..Len(input) : input[n].Start > input[n].End) =>
       pc = "done" /\ err # "nil" /\ result = <<>>

\* C16: whenever reduceEvents returns, the fragments of its first result
\* carry e1's Name, have Start <= End, lie inside e1's range, are pairwise
\* disjoint, and together cover exactly the instants of e1 that e2 does not
\* cover.
C16_FirstResultIsE1MinusE2 ==
  op = "reduceEvents" /\ ~ret.panicked =>
    /\ \A k \in 1..Len(ret.first) :
         /\ ret.first[k].Name = e1.Name
         /\ ret.first[k].Start <= ret.first[k].End
         /\ e1.Start <= ret.first[k].Start
         /\ ret.first[k].End <= e1.End
    /\ \A a, b \in 1..Len(ret.first) : a # b => Disjoint(ret.first[a], ret.first[b])
    /\ \A t \in Cells :
         (\E k \in 1..Len(ret.first) : Covers(ret.first[k], t))
           <=> (Covers(e1, t) /\ ~Covers(e2, t))

\* C16 witness: reduceEvents split e1 in two around an e2 of positive length.
C16_Witness ==
  /\ op = "reduceEvents"
  /\ ~ret.panicked
  /\ Len(ret.first) = 2
  /\ e2.Start < e2.End

\* C17: whenever reduceEvents returns, isOverlap is false between every
\* fragment of its first result and e2, and between the fragments.
C17_ResultHasNoOverlapByIsOverlap ==
  op = "reduceEvents" /\ ~ret.panicked =>
    /\ \A k \in 1..Len(ret.first) : ~isOverlap(ret.first[k], e2)
    /\ \A a, b \in 1..Len(ret.first) : a # b => ~isOverlap(ret.first[a], ret.first[b])

\* The iteration handed a pair of positions to isOverlap at line 178.
Compared == scan.kind \in {"index", "skip", "reduce-panic", "replace-panic", "resolve"}

\* C18: a resolution step on an overlapping pair at positions i < j replaces
\* element i by its fragments and leaves every other element, element j
\* included, where it was relative to the others; it accesses no index
\* outside the list.
C18_ResolutionFrame ==
  [][(pc = "loop" /\ scan'.kind \in {"resolve", "replace-panic"} /\ scan'.i < scan'.j) =>
       /\ scan'.kind = "resolve"
       /\ processedEvents' =
            SubSeq(processedEvents, 1, scan'.i) \o scan'.first
              \o SubSeq(processedEvents, scan'.i + 2, Len(processedEvents))
       /\ Len(processedEvents') = Len(processedEvents) + Len(scan'.first) - 1]_vars

\* C19: every pair of positions the scan hands to isOverlap and reduceEvents
\* satisfies i < j < len(working list).
C19_ScanPositionsOrdered == Compared => scan.i < scan.j /\ scan.j < scan.n

\* C20: the caller's list holds, during and after the call, the occurrences
\* it held before the call.
C20_InputNotModified == pass = 1 => events = input

====
